---- MODULE Spec2Model ----
(***************************************************************************)
(* State-machine model of DatabaseManager (src/api/app/utils/db_utils.py)  *)
(* together with the part of its environment its operations act on: the    *)
(* SQLite database path on the file system, the PostgreSQL server, the     *)
(* backup files, and the request scopes that consume get_db.               *)
(*                                                                         *)
(* Every public method is one action.  A method that calls other methods   *)
(* (reset_db, restore_db) is modelled by composing the operators of the    *)
(* callees on a record "m" holding the manager's fields and environment.   *)
(* m.exc is the exception in flight ("" when none), m.ev the sequence of   *)
(* externally visible steps the call has taken so far.                     *)
(***************************************************************************)
EXTENDS Integers, Sequences, FiniteSets, TLC

\* ---------------------------------------------------------------- bounds
MaxEngines == 2      \* engines created over one behaviour
MaxScopes  == 2      \* request scopes consuming get_db
MaxRows    == 1      \* rows per data table
MaxStamp   == 1      \* distinct timestamps of default backup paths
MaxProcs   == 3      \* processes running setup_db on one PostgreSQL server
MaxThreads == 2      \* threads calling setup_db on the one db_manager

\* ------------------------------------------------------------- constants
None == 0            \* Python None for engine / SessionLocal handles
NoAttr == 0          \* an attribute __init__ never assigned

Engines     == {"sqlite", "postgresql"}
DataTables  == {"topics", "sources", "articles"}
\* The tables in the order inspector.get_table_names() lists them.
TableOrder  == <<"articles", "sources", "topics">>
\* Foreign keys among them, <<referencing table, referenced table>>.
References  == {<<"articles", "topics">>}
Scopes      == 1..MaxScopes
Stamps      == 1..MaxStamp
Procs       == 1..MaxProcs
Threads     == 1..MaxThreads
\* Paths of backup files: the default, time-stamped path under
\* db_dir/backups, a path chosen by the caller, and None.
DefaultPath(t) == [kind |-> "default", stamp |-> t]
CustomPath  == [kind |-> "custom", stamp |-> 0]
NoPath      == [kind |-> "none", stamp |-> 0]
BackupPaths == {CustomPath} \cup {DefaultPath(t) : t \in Stamps}
ExitModes   == {"exhaust", "throw", "close"}

\* A database image: which schema it carries and the rows of its tables.
\* schema "migrated" = tables plus alembic_version, "created" = tables made
\* by Base.metadata.create_all (no alembic_version), "none" = no tables.
EmptyRows == [t \in DataTables |-> 0]
EmptyImg  == [schema |-> "none", rows |-> EmptyRows]
SampleImg == [schema |-> "migrated", rows |-> [t \in DataTables |-> 1]]

AbsentPath == [kind |-> "absent", img |-> EmptyImg, entries |-> {}]
DirPath(e) == [kind |-> "dir", img |-> EmptyImg, entries |-> e]
FilePath(i) == [kind |-> "file", img |-> i, entries |-> {}]

NoBackup == [exists |-> FALSE, img |-> EmptyImg]
NoPg     == [exists |-> FALSE, img |-> EmptyImg]

VARIABLES
    db_engine,      \* self.db_engine
    engine,         \* self.engine: None or the id of an engine
    SessionLocal,   \* self.SessionLocal: None or the id of the engine bound
    engines,        \* number of engines created so far (ids 1..engines)
    disposed,       \* ids of the engines on which dispose() was called
    fs_db,          \* what is at the path self.db_file
    parentDir,      \* whether dirname(self.db_file) exists
    pg,             \* the PostgreSQL database named self.db_name
    bk,             \* the backup files
    gen,            \* the get_db generators of the request scopes
    faults,         \* whether the external PostgreSQL tools may fail
    last,           \* the last call: operation, argument, result
    prov,           \* other processes running setup_db on the same server
    thr,            \* the threads inside setup_db: position and local values
    environ,        \* os.environ (after load_dotenv) and package.json
    built,          \* what DatabaseManager() computed from environ
    async_engine,   \* self.async_engine: NoAttr or the id of an async engine
    AsyncSessionLocal, \* self.AsyncSessionLocal: NoAttr or the engine bound
    cfg_file,       \* the configuration file given to Config.load_config
    dirs,           \* what is at the directory paths a configuration names
    config          \* the last result of Config.load_config

vars == <<db_engine, engine, SessionLocal, engines, disposed, fs_db,
          parentDir, pg, bk, gen, faults, last, prov, thr, environ, built,
          async_engine, AsyncSessionLocal, cfg_file, dirs, config>>

\* The variables of Config.load_config.
cfgVars == <<cfg_file, dirs, config>>

\* The attributes of the asynchronous path.
asyncVars == <<async_engine, AsyncSessionLocal>>

\* The variables written by the constructor only.
ctorVars == <<environ, built>>

\* The manager and its environment as one record, threaded through a call.
Cur ==
    [db_engine |-> db_engine, engine |-> engine, SessionLocal |-> SessionLocal,
     engines |-> engines, disposed |-> disposed, fs_db |-> fs_db,
     parentDir |-> parentDir, pg |-> pg, bk |-> bk,
     exc |-> "", ev |-> <<>>, ret |-> "none", new |-> None, path |-> NoPath,
     pgn |-> 0, fk |-> "unset", tx |-> FALSE, msg |-> ""]

Store(m) ==
    /\ engine' = m.engine
    /\ SessionLocal' = m.SessionLocal
    /\ engines' = m.engines
    /\ disposed' = m.disposed
    /\ fs_db' = m.fs_db
    /\ parentDir' = m.parentDir
    /\ pg' = m.pg
    /\ bk' = m.bk
    /\ UNCHANGED <<db_engine, faults, prov, thr, ctorVars, asyncVars, cfgVars>>

Ev(m, e)    == [m EXCEPT !.ev = Append(@, e)]
Raise(m, x) == [m EXCEPT !.exc = x]
Ret(m, r)   == [m EXCEPT !.ret = r]
Ok(m)       == m.exc = ""

\* What the environment does to one call: whether the migration scripts
\* apply cleanly, and whether the PostgreSQL server and tools respond.
\* failAt = n > 0: the n-th interaction of the call with PostgreSQL fails.
\* failTable = t: a DELETE or TRUNCATE that names table t fails.
MaxPgSteps == 5
Envs == [migOk : BOOLEAN, failAt : IF faults THEN 0..MaxPgSteps ELSE {0},
         failTable : {"none"}]

\* The environments of purge_data, which runs no migration and is the only
\* operation to delete rows.
PurgeEnvs == [migOk : {TRUE}, failAt : IF faults THEN 0..MaxPgSteps ELSE {0},
              failTable : IF faults THEN DataTables \cup {"none"} ELSE {"none"}]

\* One more interaction with the PostgreSQL server or one of its tools.
PgStep(m)       == [m EXCEPT !.pgn = @ + 1]
PgFails(m, env) == env.failAt = m.pgn + 1

\* ------------------------------------------------------- the constructor
\* An environment variable: whether it is set, and its value.
Unset    == [set |-> FALSE, val |-> ""]
SetTo(v) == [set |-> TRUE, val |-> v]

\* os.getenv(name, default)
getenv(E, name, default) == IF E[name].set THEN E[name].val ELSE default

\* The environments tried: DB_ENGINE, ENV_MODE, DB_NAME, DB_DIR as
\* variables, pkg the name in package.json ("" when it cannot be read).
\* "/abs" stands for an absolute path, "rel" for a relative one.
Environs ==
    [DB_ENGINE : {Unset} \cup {SetTo(v) : v \in {"sqlite", "postgresql", "postgres",
                                                 "mysql", "SQLite", ""}},
     ENV_MODE  : {Unset, SetTo("test"), SetTo("")},
     DB_NAME   : {Unset, SetTo("mydb"), SetTo("")},
     DB_DIR    : {Unset, SetTo("rel"), SetTo("/abs"), SetTo("")},
     pkg       : {"", "articlewriter"}]

\* The environment in which the manager of the state machine was built.
EnvironFor(e) ==
    [DB_ENGINE |-> SetTo(e), ENV_MODE |-> Unset, DB_NAME |-> Unset,
     DB_DIR |-> Unset, pkg |-> ""]

\* os.path.isabs
isabs(v) == v = "/abs"

\* A directory: the place a path is resolved against, and the path.
Dir(root, sub) == [root |-> root, sub |-> sub]
NoDir == Dir("none", "")

\* An engine check that accepts every name.
valid_engine_any(e) == TRUE

\* self.db_engine in ["sqlite", "postgresql", "postgres"]
valid_engine(e) == e \in {"sqlite", "postgresql", "postgres"}

\* _set_db_name: "{db_root}_{db_version}_{db_mode}"; the root is DB_NAME,
\* else the package name, else "app"; an empty mode prints as None.
set_db_name(E, mode) ==
    [root |-> IF getenv(E, "DB_NAME", "") # "" THEN getenv(E, "DB_NAME", "")
              ELSE IF E.pkg # "" THEN E.pkg ELSE "app",
     version |-> "head",
     mode |-> IF mode = "" THEN "None" ELSE mode]

\* _set_db_dir: an absolute DB_DIR as it is, anything else under API_ROOT.
set_db_dir(E) ==
    IF isabs(getenv(E, "DB_DIR", ""))
    THEN Dir("/", getenv(E, "DB_DIR", ""))
    ELSE Dir("API_ROOT", getenv(E, "DB_DIR", "data"))

\* The directory in the SQLite URL of _build_db_url: DB_DIR as it is (a
\* relative one is resolved against the working directory when the file is
\* opened), API_ROOT/data when DB_DIR is unset.
url_dir(E) ==
    IF ~E.DB_DIR.set THEN Dir("API_ROOT", "data")
    ELSE IF isabs(E.DB_DIR.val) THEN Dir("/", E.DB_DIR.val)
    ELSE Dir("CWD", E.DB_DIR.val)

\* _build_db_url
build_db_url(E, db_engine_, db_name) ==
    IF db_engine_ = "sqlite"
    THEN [scheme |-> "sqlite", dir |-> url_dir(E), name |-> db_name]
    ELSE [scheme |-> db_engine_, dir |-> NoDir, name |-> db_name]

NotBuilt ==
    [exc |-> "unbuilt", db_engine |-> "", mode |-> "",
     db_name |-> [root |-> "", version |-> "", mode |-> ""],
     db_dir |-> NoDir, db_url |-> [scheme |-> "", dir |-> NoDir,
                                   name |-> [root |-> "", version |-> "", mode |-> ""]],
     has_db_file |-> FALSE, engine |-> None, SessionLocal |-> None,
     has_postgres_params |-> FALSE, ev |-> <<>>]

\* DatabaseManager.__init__: every attribute is computed and engine and
\* SessionLocal are set to None before the engine name is checked.
DatabaseManager(E) ==
    LET e    == getenv(E, "DB_ENGINE", "sqlite")
        mode == getenv(E, "ENV_MODE", "development")
        name == set_db_name(E, mode)
    IN  [exc |-> IF valid_engine(e) THEN "" ELSE "ValueError",
         db_engine |-> e,
         mode |-> mode,
         db_name |-> name,
         db_dir |-> set_db_dir(E),
         db_url |-> build_db_url(E, e, name),
         has_db_file |-> e = "sqlite",
         engine |-> None,
         SessionLocal |-> None,
         has_postgres_params |-> e \in {"postgresql", "postgres"},
         ev |-> <<"load_dotenv", "alembic_config", "alembic_head",
                  "set_db_name", "set_db_dir", "build_db_url">>]

\* ------------------------------------------------------- Config.load_config
\* A configuration file: for each section the keys it sets.  A key that
\* is not written is Unset; a section without keys behaves as a missing one.
\* CUSTOM stands for a section the program does not know, EXTRA for a key
\* no model class declares.
CfgSections == {"DATABASE", "SQLITE", "POSTGRESQL", "USER", "CUSTOM"}
CfgKeys     == {"DB_TYPE", "DB_NAME", "DB_DIR", "DB_HOST", "DEFAULT_ROLE", "EXTRA",
                "ALIASES"}
DbKeys      == {"DB_NAME", "DB_DIR", "DB_HOST"}
DirNames    == {"sqlite_data", "db_dir", "sqlite_dir"}

NoKeys == [k \in CfgKeys |-> Unset]

\* The values tried for key k in section s.
CfgValues(s, k) ==
    CASE s = "DATABASE" /\ k = "DB_TYPE" ->
            {Unset} \cup {SetTo(v) : v \in {"sqlite", "postgresql", "postgres",
                                            "mysql", "SQLite"}}
      [] s = "DATABASE" /\ k = "DB_NAME"   -> {Unset, SetTo(""), SetTo("db_name")}
      [] s = "DATABASE" /\ k = "DB_DIR"    -> {Unset, SetTo("db_dir")}
      [] s = "DATABASE" /\ k = "DB_HOST"   -> {Unset, SetTo("db-host")}
      [] s = "SQLITE" /\ k = "DB_NAME"     -> {Unset, SetTo("sqlite_name")}
      [] s = "SQLITE" /\ k = "DB_DIR"      -> {Unset, SetTo("sqlite_dir")}
      [] s = "POSTGRESQL" /\ k = "DB_NAME" -> {Unset, SetTo("pg_name")}
      [] s = "POSTGRESQL" /\ k = "DB_HOST" -> {Unset, SetTo("pg-host")}
      [] s = "USER" /\ k = "DEFAULT_ROLE"  -> {Unset, SetTo("admin")}
      [] OTHER -> {Unset}

\* The sections tried under name s, and the file contents built of them.
SectionsOf(s) ==
    [DB_TYPE : CfgValues(s, "DB_TYPE"), DB_NAME : CfgValues(s, "DB_NAME"),
     DB_DIR : CfgValues(s, "DB_DIR"), DB_HOST : CfgValues(s, "DB_HOST"),
     DEFAULT_ROLE : CfgValues(s, "DEFAULT_ROLE"), EXTRA : {Unset},
     ALIASES : {Unset}]

\* Files with keys and sections the program does not know.
ExtraSections(s) ==
    [DB_TYPE : IF s = "DATABASE"
               THEN {Unset, SetTo("sqlite"), SetTo("postgresql")} ELSE {Unset},
     DB_NAME : IF s = "CUSTOM" THEN {Unset, SetTo("custom_name")} ELSE {Unset},
     DB_DIR : {Unset}, DB_HOST : {Unset},
     DEFAULT_ROLE : IF s = "USER" THEN {Unset, SetTo("admin")} ELSE {Unset},
     EXTRA : {Unset, SetTo("extra")}, ALIASES : {Unset}]

ExtraContents ==
    [DATABASE : ExtraSections("DATABASE"), SQLITE : ExtraSections("SQLITE"),
     POSTGRESQL : {NoKeys}, USER : ExtraSections("USER"),
     CUSTOM : ExtraSections("CUSTOM")]

\* Files that write a database key with nothing after the equals sign.
EmptySections(s) ==
    [DB_TYPE : IF s = "DATABASE"
               THEN {Unset, SetTo("sqlite"), SetTo("postgresql")} ELSE {Unset},
     DB_NAME : IF s = "DATABASE" THEN {Unset, SetTo(""), SetTo("db_name")}
               ELSE {Unset, SetTo("")},
     DB_DIR : IF s = "POSTGRESQL" THEN {Unset}
              ELSE IF s = "DATABASE" THEN {Unset, SetTo(""), SetTo("db_dir")}
              ELSE {Unset, SetTo("")},
     DB_HOST : IF s = "SQLITE" THEN {Unset}
               ELSE IF s = "DATABASE" THEN {Unset, SetTo(""), SetTo("db-host")}
               ELSE {Unset, SetTo("")},
     DEFAULT_ROLE : {Unset}, EXTRA : {Unset}, ALIASES : {Unset}]

EmptyContents ==
    [DATABASE : EmptySections("DATABASE"), SQLITE : EmptySections("SQLITE"),
     POSTGRESQL : EmptySections("POSTGRESQL"), USER : {NoKeys},
     CUSTOM : {NoKeys}]

Contents ==
    [DATABASE : SectionsOf("DATABASE"), SQLITE : SectionsOf("SQLITE"),
     POSTGRESQL : SectionsOf("POSTGRESQL"), USER : SectionsOf("USER"),
     CUSTOM : {NoKeys}]
      \cup ExtraContents \cup EmptyContents

MissingFile == [kind |-> "missing", sec |-> [s \in CfgSections |-> NoKeys]]
EmptyFile   == [kind |-> "empty", sec |-> [s \in CfgSections |-> NoKeys]]

CfgFiles ==
    {MissingFile, EmptyFile} \cup {[kind |-> "content", sec |-> c] : c \in Contents}

\* str.lower and str.upper on the names of database types
Lower(v) == IF v = "SQLite" THEN "sqlite" ELSE v
Upper(v) ==
    CASE v = "sqlite" -> "SQLITE"
      [] v = "postgresql" -> "POSTGRESQL"
      [] v = "postgres" -> "POSTGRES"
      [] OTHER -> v

\* CONFIG_DEFAULTS["DB_TYPES"]: the per-engine defaults of the keys
\* modelled, and the aliases.
DbTypeDefaults ==
    [SQLITE |-> [NoKeys EXCEPT !.DB_NAME = SetTo("app"),
                               !.DB_DIR = SetTo("sqlite_data"),
                               !.ALIASES = SetTo("sqlite")],
     POSTGRESQL |-> [NoKeys EXCEPT !.DB_NAME = SetTo("app"),
                                   !.DB_HOST = SetTo("localhost"),
                                   !.ALIASES = SetTo("postgresql, postgres")]]
db_types == {"postgresql", "postgres", "sqlite"}

\* The dictionary comprehension without its filter on the length of the
\* value.
parsed_section_keep_empty(f, s) == f.sec[s]

\* The dictionary comprehension over parser.items(section): keys with an
\* empty value are left out.
parsed_section(f, s) ==
    [k \in CfgKeys |-> IF f.sec[s][k].set /\ f.sec[s][k].val # ""
                       THEN f.sec[s][k] ELSE Unset]

\* {**a, **b}
merge(a, b) == [k \in CfgKeys |-> IF b[k].set THEN b[k] ELSE a[k]]

\* validate_dir: an existing writable directory is returned; a missing one
\* is created, after which the function ends without a return statement.
validate_dir(ds, d) ==
    CASE d = ""             -> [exc |-> "ValidationError", value |-> "None", dirs |-> ds]
      [] ds[d] = "dir"      -> [exc |-> "", value |-> d, dirs |-> ds]
      [] ds[d] = "absent"   -> [exc |-> "", value |-> "None",
                                dirs |-> [ds EXCEPT ![d] = "dir"]]
      [] ds[d] = "blocked"  -> [exc |-> "ValidationError", value |-> "None", dirs |-> ds]
      [] ds[d] = "file"     -> [exc |-> "ValidationError", value |-> "None", dirs |-> ds]
      [] ds[d] = "readonly" -> [exc |-> "ValidationError", value |-> "None", dirs |-> ds]

\* The value of an optional field: None when the key is not given.
Opt(e) == IF e.set THEN e.val ELSE "None"

NotLoaded ==
    [exc |-> "unloaded", msg |-> "",
     db |-> [type |-> "", name |-> "", dir |-> "", host |-> ""],
     user |-> [default_role |-> ""],
     dirs |-> [d \in DirNames |-> "absent"]]

\* The sections kept for Config(**config_dict), and the aliases of the
\* fields each model class declares.
valid_sections == {"GLOBAL", "DATABASE", "USER", "AI"}
Fields ==
    [Config |-> valid_sections,
     DatabaseConfig |-> {"DB_TYPE", "DB_NAME", "DB_DIR", "DB_HOST"},
     UserConfig |-> {"DEFAULT_ROLE"}]

\* model_config of each class: only Config sets extra="forbid", the
\* section classes keep the library default, which ignores unknown keys.
extra ==
    [Config |-> "forbid", DatabaseConfig |-> "ignore", UserConfig |-> "ignore"]

\* Whether class cls refuses the keys given to it.
extra_forbidden(cls, given) ==
    extra[cls] = "forbid" /\ given \ Fields[cls] # {}

KeysOf(section) == {k \in CfgKeys : section[k].set}

\* Config(**config_dict) once the DATABASE section is merged: the
\* validation of Config, DatabaseConfig and UserConfig.
validate_config(sections, merged, user, ds) ==
    LET vd == IF merged.DB_DIR.set THEN validate_dir(ds, merged.DB_DIR.val)
              ELSE [exc |-> "", value |-> "None", dirs |-> ds]
    IN  IF \/ extra_forbidden("Config", sections)
           \/ extra_forbidden("DatabaseConfig", KeysOf(merged))
           \/ extra_forbidden("UserConfig", KeysOf(user))
        THEN [NotLoaded EXCEPT !.exc = "ValidationError", !.dirs = ds]
        ELSE IF \/ merged.DB_TYPE.val \notin {"sqlite", "postgresql", "postgres"}
                \/ merged.DB_NAME.val = ""
                \/ merged.DB_HOST.set /\ merged.DB_HOST.val = ""
        THEN [NotLoaded EXCEPT !.exc = "ValidationError", !.dirs = ds]
        ELSE IF vd.exc # ""
        THEN [NotLoaded EXCEPT !.exc = vd.exc, !.dirs = vd.dirs]
        ELSE [exc |-> "", msg |-> "",
              db |-> [type |-> merged.DB_TYPE.val,
                      name |-> merged.DB_NAME.val,
                      dir |-> vd.value,
                      host |-> Opt(merged.DB_HOST)],
              user |-> [default_role |-> IF user.DEFAULT_ROLE.set
                                         THEN user.DEFAULT_ROLE.val ELSE "viewer"],
              dirs |-> vd.dirs]

\* The keys of config_dict handed to Config: DATABASE, which load_config
\* always writes, and the sections of the file, less the engine's own
\* section and the ones valid_sections does not name.
kept_sections(f, engine_section) ==
    {s \in ({"DATABASE"}
             \cup {t \in CfgSections : KeysOf(f.sec[t]) # {}})
            \ {engine_section} : s \in valid_sections}

\* Config.load_config(file_path)
load_config(f, ds) ==
    LET database  == parsed_section(f, "DATABASE")
        db_config == IF ~database.DB_TYPE.set
                     THEN [NoKeys EXCEPT !.DB_TYPE = SetTo("sqlite")]
                     ELSE database
        db_type   == Lower(db_config.DB_TYPE.val)
    IN  IF db_type \notin db_types
        THEN [NotLoaded EXCEPT !.exc = "ConfigValueError",
                               !.msg = db_config.DB_TYPE.val, !.dirs = ds]
        ELSE IF Upper(db_type) \notin DOMAIN DbTypeDefaults
        THEN [NotLoaded EXCEPT !.exc = "KeyError", !.msg = Upper(db_type),
                               !.dirs = ds]
        ELSE validate_config(
                kept_sections(f, Upper(db_type)),
                merge(merge(DbTypeDefaults[Upper(db_type)], db_config),
                      parsed_section(f, Upper(db_type))),
                parsed_section(f, "USER"), ds)

\* ------------------------------------------------- the database behind m
IsSqlite(m) == m.db_engine = "sqlite"

DbImg(m) == IF IsSqlite(m) THEN m.fs_db.img ELSE m.pg.img

SetImg(m, i) ==
    IF IsSqlite(m) THEN [m EXCEPT !.fs_db.img = i] ELSE [m EXCEPT !.pg.img = i]

\* Whether a connection through an engine of this manager can be opened:
\* SQLite opens a regular file, or creates one in an existing directory; it
\* cannot open a directory.  PostgreSQL needs the database to exist.
CanOpen(m, env) ==
    IF IsSqlite(m)
    THEN \/ m.fs_db.kind = "file"
         \/ m.fs_db.kind = "absent" /\ m.parentDir
    ELSE m.pg.exists /\ ~PgFails(m, env)

\* The state after a connection was opened (SQLite creates a missing file).
Opened(m) ==
    IF ~IsSqlite(m) THEN PgStep(m)
    ELSE IF m.fs_db.kind = "absent" THEN [m EXCEPT !.fs_db = FilePath(EmptyImg)]
    ELSE m

\* The state after a connection attempt failed.
FailedOpen(m) == IF IsSqlite(m) THEN m ELSE PgStep(m)

\* os.makedirs(self.db_file, exist_ok=True): creates a DIRECTORY at the path
\* of the database file (and its parents); tolerates an existing directory
\* and raises FileExistsError on an existing regular file.
makedirs_db_file(m) ==
    CASE m.fs_db.kind = "file"   -> Raise(Ev(m, "makedirs(db_file)"), "FileExistsError")
      [] m.fs_db.kind = "dir"    -> Ev(m, "makedirs(db_file)")
      [] m.fs_db.kind = "absent" ->
            Ev([m EXCEPT !.fs_db = DirPath({}), !.parentDir = TRUE],
               "makedirs(db_file)")

\* _connect: returns a new engine in m.new (engines are created lazily, so
\* create_engine itself does not touch the database).
connect(m) ==
    LET m1 == IF IsSqlite(m) THEN makedirs_db_file(m) ELSE m
    IN  IF ~Ok(m1) THEN m1
        ELSE Ev([m1 EXCEPT !.engines = @ + 1, !.new = m1.engines + 1],
                "create_engine")

\* _create_postgresql_db: check the catalog, CREATE DATABASE when absent.
create_postgresql_db(m, env) ==
    IF PgFails(m, env) THEN Raise(PgStep(m), "OperationalError")
    ELSE IF m.pg.exists THEN PgStep(m)
    ELSE Ev([PgStep(m) EXCEPT !.pg = [exists |-> TRUE, img |-> EmptyImg]],
            "CREATE DATABASE")

\* _run_migrations: alembic upgrade head.  It fails when the database cannot
\* be opened, when a migration script fails, and when the tables already
\* exist without alembic_version (created by create_all); DDL is
\* transactional, so a failed upgrade leaves the schema as it was.
run_migrations(m, env) ==
    LET m1 == Ev(m, "upgrade")
    IN  IF ~CanOpen(m1, env) THEN Raise(FailedOpen(m1), "OperationalError")
        ELSE IF ~env.migOk THEN Raise(Opened(m1), "MigrationError")
        ELSE IF DbImg(Opened(m1)).schema = "created"
             THEN Raise(Opened(m1), "OperationalError")
        ELSE SetImg(Opened(m1), [DbImg(Opened(m1)) EXCEPT !.schema = "migrated"])

\* Base.metadata.create_all(bind=self.engine): creates the missing tables.
create_all(m, env) ==
    LET m1 == Ev(m, "create_all")
    IN  IF ~CanOpen(m1, env) THEN Raise(FailedOpen(m1), "OperationalError")
        ELSE IF DbImg(Opened(m1)).schema = "none"
             THEN SetImg(Opened(m1), [DbImg(Opened(m1)) EXCEPT !.schema = "created"])
        ELSE Opened(m1)

\* The try/except around _run_migrations in setup_db.
migrate_or_fallback(m, env) ==
    LET m1 == run_migrations(m, env)
    IN  IF Ok(m1) THEN m1
        ELSE create_all([m1 EXCEPT !.exc = ""], env)

\* setup_db from "self.engine = self._connect()" to its end.
setup_db_connect(m, run_mig, env) ==
    LET m2 == connect(m)
        m3 == Ev([m2 EXCEPT !.engine = m2.new, !.SessionLocal = m2.new],
                 "sessionmaker")
    IN  IF ~Ok(m2) THEN m2
        ELSE IF ~run_mig THEN Ret(m3, "self")
        ELSE LET m4 == migrate_or_fallback(m3, env)
             IN  IF Ok(m4) THEN Ret(m4, "self") ELSE m4

setup_db(m, run_mig, env) ==
    LET m0 == Ev(m, IF run_mig THEN "setup_db(True)" ELSE "setup_db(False)")
        m1 == IF IsSqlite(m0) THEN makedirs_db_file(m0)
              ELSE create_postgresql_db(m0, env)
    IN  IF ~Ok(m1) THEN m1 ELSE setup_db_connect(m1, run_mig, env)

\* self.engine.dispose() on the current engine.
dispose(m) ==
    Ev([m EXCEPT !.disposed = @ \cup {m.engine}], "dispose")

\* os.remove(self.db_file): removes a regular file, fails on a directory.
remove_db_file(m) ==
    IF m.fs_db.kind = "dir"
    THEN Raise(Ev(m, "remove(db_file)"), "IsADirectoryError")
    ELSE Ev([m EXCEPT !.fs_db = AbsentPath], "remove(db_file)")

drop_postgresql_db(m, env) ==
    IF PgFails(m, env) THEN Raise(PgStep(m), "OperationalError")
    ELSE IF m.pg.exists THEN Ev([PgStep(m) EXCEPT !.pg = NoPg], "DROP DATABASE")
    ELSE PgStep(m)

\* A reset that forgets the session factory.
reset_instance_state_engine_only(m) == [m EXCEPT !.engine = None]

\* "Reset instance state" at the end of drop_db.
reset_instance_state(m) == [m EXCEPT !.engine = None, !.SessionLocal = None]

drop_db(m, env) ==
    LET m0 == Ev(m, "drop_db")
        m1 == IF m0.engine # None THEN dispose(m0) ELSE m0
        m2 == IF IsSqlite(m1)
              THEN IF m1.fs_db.kind # "absent" THEN remove_db_file(m1) ELSE m1
              ELSE drop_postgresql_db(m1, env)
    IN  IF ~Ok(m2) THEN m2
        ELSE Ret(reset_instance_state(m2), "self")

reset_db(m, env) ==
    LET m1 == drop_db(m, env)
    IN  IF ~Ok(m1) THEN m1 ELSE setup_db(m1, TRUE, env)

\* "if not self.engine: self.engine = self._connect()", the lazy opening
\* shared by test_connection, validate_schema, purge_data, check_db_health.
lazy_engine(m) ==
    IF m.engine # None THEN m
    ELSE LET c == connect(m)
         IN  IF Ok(c) THEN [c EXCEPT !.engine = c.new] ELSE c

\* A connection is opened through the engine and a statement is run.
probe(m, env, what) ==
    IF CanOpen(m, env) THEN Ev(Opened(m), what)
    ELSE Raise(FailedOpen(m), "OperationalError")

\* "except Exception as e" of test_connection: the error goes into the
\* message of the status, which otherwise keeps success = False.
connection_failed(m) == Ret([m EXCEPT !.msg = m.exc, !.exc = ""], "failure")

\* A finally clause that disposes only after a successful probe.
test_connection_finally_on_success(m) ==
    IF m.engine # None /\ m.ret = "success" THEN dispose(m) ELSE m

\* "finally: if self.engine: self.engine.dispose()"
test_connection_finally(m) == IF m.engine # None THEN dispose(m) ELSE m

test_connection(m, env) ==
    LET m1 == lazy_engine(Ev(m, "test_connection"))
        m2 == IF Ok(m1) THEN probe(m1, env, "SELECT 1") ELSE m1
        m3 == IF Ok(m2) THEN Ret(m2, "success") ELSE connection_failed(m2)
    IN  test_connection_finally(m3)

validate_schema(m, env) ==
    LET m1 == lazy_engine(Ev(m, "validate_schema"))
        m2 == IF Ok(m1) THEN probe(m1, env, "inspect") ELSE m1
    IN  IF ~Ok(m2) THEN Ret([m2 EXCEPT !.exc = ""], "error")
        ELSE IF DbImg(m2).schema = "none" THEN Ret(m2, "invalid")
        ELSE Ret(m2, "valid")

\* An except clause that lets the error out.
health_failed_reraise(m) == m

\* "except Exception as e" of check_db_health: status "unhealthy", the
\* error in details.
health_failed(m) == Ret([m EXCEPT !.msg = m.exc, !.exc = ""], "unhealthy")

check_db_health(m, env) ==
    LET m1 == lazy_engine(Ev(m, "check_db_health"))
        m2 == IF Ok(m1) THEN probe(m1, env, "inspect") ELSE m1
    IN  IF ~Ok(m2) THEN health_failed(m2)
        ELSE Ret(m2, "healthy")

\* tables_to_purge: the tables the inspector lists, less the exclusions;
\* alembic_version, always excluded, is carried by img.schema.
tables_to_purge(img, exclude) ==
    IF img.schema = "none" THEN {} ELSE DataTables \ exclude

\* The image with the rows of the tables ts deleted.
emptied(img, ts) ==
    [img EXCEPT !.rows = [t \in DataTables |-> IF t \in ts THEN 0 ELSE img.rows[t]]]

\* TRUNCATE ... CASCADE: PostgreSQL also truncates every table that has a
\* foreign key to one of the tables named, and so on transitively.
RECURSIVE cascade(_)
cascade(ts) ==
    LET more == ts \cup {r[1] : r \in {q \in References : q[2] \in ts}}
    IN  IF more = ts THEN ts ELSE cascade(more)

\* PRAGMA foreign_keys on the connection of the purge.  SQLite ignores the
\* pragma while a transaction is open; the driver opens the transaction at
\* the first DELETE, not at engine.begin().
pragma_fk(m, v) ==
    LET m1 == Ev(m, IF v = "off" THEN "PRAGMA foreign_keys = OFF"
                    ELSE "PRAGMA foreign_keys = ON")
    IN  IF m.tx THEN m1 ELSE [m1 EXCEPT !.fk = v]

\* "for table in tables_to_purge: conn.execute(DELETE FROM table)"
RECURSIVE delete_each(_, _, _)
delete_each(m, ts, env) ==
    IF ts = <<>> THEN m
    ELSE IF env.failTable = Head(ts)
         THEN Raise(Ev([m EXCEPT !.tx = TRUE], "DELETE fails"), "OperationalError")
    ELSE delete_each(Ev([SetImg(m, emptied(DbImg(m), {Head(ts)}))
                            EXCEPT !.tx = TRUE], "DELETE"),
                     Tail(ts), env)

\* "TRUNCATE TABLE t1, t2, ... CASCADE", skipped when there is no table.
truncate_cascade(m, ts, env) ==
    IF ts = {} THEN m
    ELSE IF env.failTable \in ts
         THEN Raise(Ev(m, "TRUNCATE fails"), "OperationalError")
    ELSE Ev(SetImg(m, emptied(DbImg(m), cascade(ts))), "TRUNCATE CASCADE")

\* Leaving the block without undoing the statements already executed.
begin_exit_keep(m, before) == Ev([m EXCEPT !.tx = FALSE], "ROLLBACK")

\* An exception leaves "with self.engine.begin() as conn": the transaction
\* is rolled back, which restores the contents the block started with.
begin_exit_rollback(m, before) ==
    Ev([SetImg(m, DbImg(before)) EXCEPT !.tx = FALSE], "ROLLBACK")

\* The block "with self.engine.begin() as conn": commit when it is left
\* normally, rollback when an exception leaves it.
purge_transaction(m, ts, env) ==
    LET InTs(t) == t \in ts
        m1 == IF IsSqlite(m) THEN pragma_fk(m, "off") ELSE m
        m2 == IF IsSqlite(m1) THEN delete_each(m1, SelectSeq(TableOrder, InTs), env)
              ELSE truncate_cascade(m1, ts, env)
        m3 == IF IsSqlite(m2) THEN pragma_fk(m2, "on") ELSE m2
    IN  IF Ok(m2) THEN Ev([m3 EXCEPT !.tx = FALSE], "COMMIT")
        ELSE begin_exit_rollback(m2, m)

purge_data(m, exclude, env) ==
    LET m1 == lazy_engine(Ev(m, "purge_data"))
        m2 == IF Ok(m1) THEN probe(m1, env, "inspect") ELSE m1
        m3 == purge_transaction(m2, tables_to_purge(DbImg(m2), exclude), env)
    IN  IF ~Ok(m2) THEN m2
        ELSE IF ~Ok(m3) THEN m3
        ELSE Ret(m3, "self")

\* os.makedirs(os.path.join(self.db_dir, "backups"), exist_ok=True) also
\* creates self.db_dir, the directory of the database file (DB_DIR unset or
\* absolute, so that the URL and self.db_dir name the same directory).
makedirs_backups(m) == [m EXCEPT !.parentDir = TRUE]

\* backup_db: backup_path is NoPath for None; the default path is named by
\* the time stamp.  A caller-specified path skips the whole "if not
\* backup_path" block and reaches the final "return None".
backup_db(m, backup_path, stamp, env) ==
    LET m0 == Ev(m, "backup_db")
        m1 == makedirs_backups(m0)
    IN  IF backup_path # NoPath THEN Ret(m0, "None")
        ELSE IF IsSqlite(m1)
        THEN CASE m1.fs_db.kind = "file" ->
                    [Ev([m1 EXCEPT !.bk[DefaultPath(stamp)] =
                            [exists |-> TRUE, img |-> m1.fs_db.img]], "copy2")
                     EXCEPT !.ret = "path", !.path = DefaultPath(stamp)]
               [] m1.fs_db.kind = "dir" ->
                    Raise(Ev(m1, "copy2"), "IsADirectoryError")
               [] m1.fs_db.kind = "absent" -> Raise(m1, "FileNotFoundError")
        ELSE IF m1.pg.exists /\ ~PgFails(m1, env)
             THEN [Ev([PgStep(m1) EXCEPT !.bk[DefaultPath(stamp)] =
                          [exists |-> TRUE, img |-> m1.pg.img]], "pg_dump")
                   EXCEPT !.ret = "path", !.path = DefaultPath(stamp)]
             ELSE Ret(Ev([PgStep(m1) EXCEPT !.bk[DefaultPath(stamp)] = NoBackup],
                         "pg_dump"), "None")

\* shutil.copy2(backup_path, self.db_file): onto a file or a free path it
\* writes the file; onto a directory it copies the backup into it.
copy_to_db_file(m, backup_path, env) ==
    IF PgFails(m, env) THEN Raise(Ev(PgStep(m), "copy2 fails"), "OSError")
    ELSE IF m.fs_db.kind = "dir"
    THEN Ev([m EXCEPT !.fs_db.entries = @ \cup {backup_path}], "copy2->db_file")
    ELSE Ev([m EXCEPT !.fs_db = FilePath(m.bk[backup_path].img)], "copy2->db_file")

pg_restore(m, backup_path, env) ==
    IF PgFails(m, env) \/ ~m.pg.exists
    THEN Raise(Ev(PgStep(m), "pg_restore"), "CalledProcessError")
    ELSE Ev([PgStep(m) EXCEPT !.pg.img = m.bk[backup_path].img], "pg_restore")

\* The exception handlers of restore_db: every exception becomes False.
restore_result(m) ==
    IF Ok(m) THEN Ret(m, "True") ELSE Ret([m EXCEPT !.exc = ""], "False")

\* An existence test that never notices a missing file.
backup_exists_always(m, backup_path) == TRUE

\* os.path.exists(backup_path)
backup_exists(m, backup_path) == m.bk[backup_path].exists

\* Clearing the handles without disposing the engine.
restore_close_no_dispose(m) ==
    IF m.engine # None
    THEN Ev([m EXCEPT !.engine = None, !.SessionLocal = None], "clear")
    ELSE m

\* Disposing the engine and keeping both handles.
restore_close_dispose_only(m) ==
    IF m.engine # None THEN Ev(dispose(m), "clear") ELSE m

\* "Close any existing connections" of restore_db.
restore_close(m) ==
    IF m.engine # None
    THEN Ev([dispose(m) EXCEPT !.engine = None, !.SessionLocal = None], "clear")
    ELSE m

restore_db(m, backup_path, env) ==
    LET m0 == Ev(m, "restore_db")
        m1 == restore_close(m0)
    IN  IF ~backup_exists(m, backup_path) THEN Ret(m0, "False")
        ELSE IF IsSqlite(m1)
        THEN LET m2 == copy_to_db_file([m1 EXCEPT !.parentDir = TRUE],
                                       backup_path, env)
             IN  restore_result(IF Ok(m2) THEN setup_db(m2, FALSE, env) ELSE m2)
        ELSE LET m2 == drop_db(m1, env)
                 m3 == IF Ok(m2) THEN create_postgresql_db(m2, env) ELSE m2
                 m4 == IF Ok(m3) THEN pg_restore(m3, backup_path, env) ELSE m3
                 m5 == IF Ok(m4) THEN setup_db(m4, FALSE, env) ELSE m4
             IN  restore_result(m5)

\* ------------------------------------------------------------- sessions
IdleGen == [st |-> "idle", sess |-> "none"]

\* A finally clause that is skipped when an exception is thrown in.
get_db_finally_skips_throw(mode) == mode # "throw"

\* The finally clause of get_db runs db.close() however the generator is
\* left: exhausted, an exception thrown in, or closed / garbage collected.
get_db_finally(mode) == TRUE

\* get_db up to its yield: _connect() is called for its side effects only
\* (its result is dropped), then self.SessionLocal() is called.
get_db_enter(m) ==
    LET m0 == Ev(m, "get_db")
        m1 == IF m0.SessionLocal = None THEN connect(m0) ELSE m0
    IN  IF ~Ok(m1) THEN m1
        ELSE IF m1.SessionLocal = None THEN Raise(m1, "TypeError")
        ELSE Ret(Ev(m1, "SessionLocal()"), "session")

\* db.add(...); db.commit() of a route, through a session of get_db.
commit_row(m, t, env) ==
    IF ~CanOpen(m, env) THEN Raise(FailedOpen(m), "OperationalError")
    ELSE IF DbImg(Opened(m)).schema = "none"
         THEN Raise(Opened(m), "OperationalError")
    ELSE Ret(Ev(SetImg(Opened(m), [DbImg(Opened(m)) EXCEPT !.rows[t] = @ + 1]),
                "commit"), "row")

\* ------------------------------------------------------- the async path
\* The attributes the asynchronous methods read and write.
ACur ==
    [db_engine |-> db_engine, engine |-> engine, SessionLocal |-> SessionLocal,
     async_engine |-> async_engine, AsyncSessionLocal |-> AsyncSessionLocal,
     exc |-> "", ev |-> <<>>, ret |-> "none"]

\* setup_async_db: PostgreSQL only; a new async engine and a session factory
\* of class AsyncSession bound to it.
setup_async_db(a) ==
    IF a.db_engine \in {"postgresql", "postgres"}
    THEN Ret(Ev([a EXCEPT !.async_engine = a.async_engine + 1,
                          !.AsyncSessionLocal = a.async_engine + 1],
                "create_async_engine"), "self")
    ELSE Raise(a, "NotImplementedError")

\* A session taken from the synchronous factory.
async_session_from_sync(a) == Ev(a, "SessionLocal()")

\* "async with self.AsyncSessionLocal() as session"
async_session(a) == Ev(a, "AsyncSessionLocal()")

\* get_async_db: reading self.AsyncSessionLocal fails while the attribute
\* does not exist; otherwise a session of the async factory is yielded and
\* closed when the consumer is done.
get_async_db(a) ==
    IF a.AsyncSessionLocal = NoAttr THEN Raise(a, "AttributeError")
    ELSE Ret(Ev(Ev(async_session(a), "yield"), "close"), "session")

\* ------------------------------------------------------------ the machine
NoCall == [op |-> "init", run_mig |-> FALSE, path |-> NoPath, scope |-> 0,
           mode |-> "none", ret |-> "none", exc |-> "", rpath |-> NoPath,
           ev |-> <<>>, exclude |-> {}, fk |-> "unset", msg |-> ""]

\* The record of a call that ended in state m.
Call(op, m) == [NoCall EXCEPT !.op = op, !.ret = IF Ok(m) THEN m.ret ELSE "raised",
                              !.exc = m.exc, !.rpath = m.path, !.ev = m.ev,
                              !.fk = m.fk, !.msg = m.msg]

\* A thread outside setup_db.  Inside, new is the engine _connect
\* returned to it and bind the value of self.engine it read for sessionmaker.
IdleThread == [pc |-> "idle", new |-> None, bind |-> None, run_mig |-> FALSE]

\* A process that has not started setup_db; exists is what its catalog
\* query answered.
IdleProc == [pc |-> "idle", exists |-> FALSE, exc |-> ""]

\* After DatabaseManager.__init__: engine and SessionLocal are None.  The
\* environment is whatever earlier runs left: the database file may exist,
\* the PostgreSQL database may exist; no backup has been taken yet.
InitWith(f) ==
    /\ db_engine \in Engines
    /\ engine = None
    /\ SessionLocal = None
    /\ engines = 0
    /\ disposed = {}
    /\ fs_db \in IF db_engine = "sqlite"
                 THEN {AbsentPath, FilePath(SampleImg)} ELSE {AbsentPath}
    /\ parentDir \in IF db_engine = "sqlite" /\ fs_db.kind = "absent"
                     THEN BOOLEAN ELSE {TRUE}
    /\ pg \in IF db_engine = "sqlite" THEN {NoPg}
              ELSE {NoPg, [exists |-> TRUE, img |-> SampleImg]}
    /\ bk = [p \in BackupPaths |-> NoBackup]
    /\ gen = [s \in Scopes |-> IdleGen]
    /\ faults \in f
    /\ last = NoCall
    /\ prov = [p \in Procs |-> IdleProc]
    /\ thr = [t \in Threads |-> IdleThread]
    /\ environ = EnvironFor(db_engine)
    /\ built = DatabaseManager(environ)
    /\ async_engine = NoAttr
    /\ AsyncSessionLocal = NoAttr
    /\ cfg_file = MissingFile
    /\ dirs = [d \in DirNames |-> "absent"]
    /\ config = NotLoaded

Init == InitWith({FALSE})

InitFaults == InitWith(BOOLEAN)

SetupDb ==
    \E run_mig \in BOOLEAN, env \in Envs :
        /\ engines < MaxEngines
        /\ LET r == setup_db(Cur, run_mig, env)
           IN  /\ Store(r)
               /\ last' = [Call("setup_db", r) EXCEPT !.run_mig = run_mig]
        /\ UNCHANGED gen

DropDb ==
    \E env \in Envs :
        /\ LET r == drop_db(Cur, env)
           IN  Store(r) /\ last' = Call("drop_db", r)
        /\ UNCHANGED gen

ResetDb ==
    \E env \in Envs :
        /\ engines < MaxEngines
        /\ LET r == reset_db(Cur, env)
           IN  Store(r) /\ last' = [Call("reset_db", r) EXCEPT !.run_mig = TRUE]
        /\ UNCHANGED gen

TestConnection ==
    \E env \in Envs :
        /\ engines < MaxEngines
        /\ LET r == test_connection(Cur, env)
           IN  Store(r) /\ last' = Call("test_connection", r)
        /\ UNCHANGED gen

ValidateSchema ==
    \E env \in Envs :
        /\ engines < MaxEngines
        /\ LET r == validate_schema(Cur, env)
           IN  Store(r) /\ last' = Call("validate_schema", r)
        /\ UNCHANGED gen

CheckDbHealth ==
    \E env \in Envs :
        /\ engines < MaxEngines
        /\ LET r == check_db_health(Cur, env)
           IN  Store(r) /\ last' = Call("check_db_health", r)
        /\ UNCHANGED gen

PurgeData ==
    \E exclude \in SUBSET DataTables, env \in PurgeEnvs :
        /\ engines < MaxEngines
        /\ LET r == purge_data(Cur, exclude, env)
           IN  Store(r) /\ last' = [Call("purge_data", r) EXCEPT !.exclude = exclude]
        /\ UNCHANGED gen

BackupDb ==
    \E backup_path \in {NoPath, CustomPath}, stamp \in Stamps, env \in Envs :
        /\ LET r == backup_db(Cur, backup_path, stamp, env)
           IN  Store(r) /\ last' = [Call("backup_db", r) EXCEPT !.path = backup_path]
        /\ UNCHANGED gen

RestoreDb ==
    \E backup_path \in BackupPaths, env \in Envs :
        /\ engines < MaxEngines
        /\ LET r == restore_db(Cur, backup_path, env)
           IN  Store(r) /\ last' = [Call("restore_db", r) EXCEPT !.path = backup_path]
        /\ UNCHANGED gen

AsyncFrame == <<db_engine, engines, disposed, fs_db, parentDir, pg, bk, gen,
                faults, prov, thr, ctorVars, cfgVars>>

AStore(r, op) ==
    /\ engine' = r.engine
    /\ SessionLocal' = r.SessionLocal
    /\ async_engine' = r.async_engine
    /\ AsyncSessionLocal' = r.AsyncSessionLocal
    /\ last' = [NoCall EXCEPT !.op = op, !.exc = r.exc, !.ev = r.ev,
                              !.ret = IF Ok(r) THEN r.ret ELSE "raised"]
    /\ UNCHANGED AsyncFrame

SetupAsyncDb ==
    /\ async_engine < MaxEngines
    /\ AStore(setup_async_db(ACur), "setup_async_db")

\* One consumer iterating get_async_db to its end.
GetAsyncDb == AStore(get_async_db(ACur), "get_async_db")

\* next() on a fresh generator of get_db: runs it up to the yield.
GetDbNext ==
    \E s \in Scopes :
        /\ gen[s].st = "idle"
        /\ engines < MaxEngines
        /\ LET r == get_db_enter(Cur)
           IN  /\ Store(r)
               /\ last' = [Call("get_db", r) EXCEPT !.scope = s]
               /\ gen' = [gen EXCEPT ![s] =
                            IF Ok(r)
                            THEN [st |-> "yielded", sess |-> "open"]
                            ELSE [IdleGen EXCEPT !.st = "done"]]

\* The scope that holds the session is left: the generator is resumed and
\* runs out, the consumer's exception is thrown into it, or it is closed.
GetDbExit ==
    \E s \in Scopes, mode \in ExitModes :
        /\ gen[s].st = "yielded"
        /\ gen' = [gen EXCEPT ![s].st = "done",
                              ![s].sess = IF get_db_finally(mode)
                                          THEN "closed" ELSE "open"]
        /\ last' = [NoCall EXCEPT !.op = "get_db_exit", !.scope = s, !.mode = mode,
                                  !.exc = IF mode = "throw" THEN "ConsumerError" ELSE "",
                                  !.ret = IF mode = "throw" THEN "raised" ELSE "none"]
        /\ UNCHANGED <<db_engine, engine, SessionLocal, engines, disposed, fs_db,
                       parentDir, pg, bk, faults, prov, thr, ctorVars, asyncVars,
                       cfgVars>>

\* create_topic: a route that writes one row of topics through the session
\* of its scope.
create_topic ==
    \E s \in Scopes, env \in Envs :
        /\ gen[s].st = "yielded"
        /\ DbImg(Cur).rows["topics"] < MaxRows
        /\ LET r == commit_row(Cur, "topics", env)
           IN  Store(r) /\ last' = [Call("create_topic", r) EXCEPT !.scope = s]
        /\ UNCHANGED gen

\* create_source: the same for sources.
create_source ==
    \E s \in Scopes, env \in Envs :
        /\ gen[s].st = "yielded"
        /\ DbImg(Cur).rows["sources"] < MaxRows
        /\ LET r == commit_row(Cur, "sources", env)
           IN  Store(r) /\ last' = [Call("create_source", r) EXCEPT !.scope = s]
        /\ UNCHANGED gen

Next ==
    \/ SetupDb
    \/ DropDb
    \/ ResetDb
    \/ TestConnection
    \/ ValidateSchema
    \/ CheckDbHealth
    \/ PurgeData
    \/ BackupDb
    \/ RestoreDb
    \/ GetDbNext
    \/ GetDbExit
    \/ create_topic
    \/ create_source
    \/ SetupAsyncDb
    \/ GetAsyncDb

Spec == Init /\ [][Next]_vars

SpecFaults == InitFaults /\ [][Next]_vars

\* The operations of the manager alone: no request scope is open, the
\* database is written by the manager only.
NextManager ==
    \/ SetupDb
    \/ DropDb
    \/ ResetDb
    \/ TestConnection
    \/ ValidateSchema
    \/ CheckDbHealth
    \/ PurgeData
    \/ BackupDb
    \/ RestoreDb

SpecManager == Init /\ [][NextManager]_vars

\* ------------------------------------------------- threads in setup_db
\* Two request threads share the module-level db_manager.  Each runs
\* setup_db statement by statement; the interpreter may switch threads
\* between any two attribute reads and writes.
ThrFrame == <<db_engine, bk, gen, faults, prov, ctorVars, asyncVars, cfgVars>>

ThrCall(op, t, m) ==
    [NoCall EXCEPT !.op = op, !.scope = t, !.exc = m.exc, !.ev = m.ev,
                   !.ret = IF Ok(m) THEN "none" ELSE "raised"]

\* "os.makedirs(self.db_file)" or "self._create_postgresql_db()"
ThrBegin ==
    \E t \in Threads, run_mig \in BOOLEAN, env \in Envs :
        /\ thr[t].pc = "idle"
        /\ engines + Cardinality({u \in Threads : thr[u].pc = "connect"}) < MaxEngines
        /\ LET m0 == Ev(Cur, IF run_mig THEN "setup_db(True)" ELSE "setup_db(False)")
               r  == IF IsSqlite(m0) THEN makedirs_db_file(m0)
                     ELSE create_postgresql_db(m0, env)
           IN  /\ fs_db' = r.fs_db
               /\ parentDir' = r.parentDir
               /\ pg' = r.pg
               /\ thr' = [thr EXCEPT ![t] =
                            IF Ok(r) THEN [IdleThread EXCEPT !.pc = "connect",
                                                             !.run_mig = run_mig]
                            ELSE IdleThread]
               /\ last' = [ThrCall("setup_db", t, r) EXCEPT !.run_mig = run_mig]
        /\ UNCHANGED <<engine, SessionLocal, engines, disposed, ThrFrame>>

\* The call self._connect(), the right-hand side of line 190: the new
\* engine is a value local to the thread.
ThrConnect ==
    \E t \in Threads :
        /\ thr[t].pc = "connect"
        /\ LET r == connect(Cur)
           IN  /\ fs_db' = r.fs_db
               /\ parentDir' = r.parentDir
               /\ engines' = r.engines
               /\ thr' = [thr EXCEPT ![t] =
                            IF Ok(r) THEN [@ EXCEPT !.pc = "assign_engine",
                                                    !.new = r.new]
                            ELSE IdleThread]
               /\ last' = ThrCall("_connect", t, r)
        /\ UNCHANGED <<engine, SessionLocal, disposed, pg, ThrFrame>>

\* "self.engine = ..."
ThrAssignEngine ==
    \E t \in Threads :
        /\ thr[t].pc = "assign_engine"
        /\ engine' = thr[t].new
        /\ thr' = [thr EXCEPT ![t].pc = "sessionmaker"]
        /\ last' = [NoCall EXCEPT !.op = "store engine", !.scope = t]
        /\ UNCHANGED <<SessionLocal, engines, disposed, fs_db, parentDir, pg,
                       ThrFrame>>

\* "sessionmaker(autocommit=False, autoflush=False, bind=self.engine)",
\* the right-hand side of line 191: self.engine is read here.
ThrSessionmaker ==
    \E t \in Threads :
        /\ thr[t].pc = "sessionmaker"
        /\ thr' = [thr EXCEPT ![t].pc = "assign_session", ![t].bind = engine]
        /\ last' = [NoCall EXCEPT !.op = "sessionmaker", !.scope = t]
        /\ UNCHANGED <<engine, SessionLocal, engines, disposed, fs_db, parentDir,
                       pg, ThrFrame>>

\* "self.SessionLocal = ..."
ThrAssignSession ==
    \E t \in Threads :
        /\ thr[t].pc = "assign_session"
        /\ SessionLocal' = thr[t].bind
        /\ thr' = [thr EXCEPT ![t].pc = "migrate"]
        /\ last' = [NoCall EXCEPT !.op = "store SessionLocal", !.scope = t]
        /\ UNCHANGED <<engine, engines, disposed, fs_db, parentDir, pg, ThrFrame>>

\* "if run_migrations: ..." and "return self"
ThrReturn ==
    \E t \in Threads, env \in Envs :
        /\ thr[t].pc = "migrate"
        /\ LET r == IF thr[t].run_mig THEN migrate_or_fallback(Cur, env) ELSE Cur
           IN  /\ fs_db' = r.fs_db
               /\ pg' = r.pg
               /\ last' = [ThrCall("setup_db", t, r) EXCEPT
                              !.run_mig = thr[t].run_mig,
                              !.ret = IF Ok(r) THEN "self" ELSE "raised"]
        /\ thr' = [thr EXCEPT ![t] = IdleThread]
        /\ UNCHANGED <<engine, SessionLocal, engines, disposed, parentDir,
                       ThrFrame>>

NextThreads ==
    \/ ThrBegin
    \/ ThrConnect
    \/ ThrAssignEngine
    \/ ThrSessionmaker
    \/ ThrAssignSession
    \/ ThrReturn

SpecThreads == Init /\ [][NextThreads]_vars

\* Backup and restore on a manager whose file copies and PostgreSQL steps
\* can fail.
NextRestore ==
    \/ SetupDb
    \/ DropDb
    \/ TestConnection
    \/ BackupDb
    \/ RestoreDb

SpecRestore == InitFaults /\ [][NextRestore]_vars

\* The request scopes of get_db and the routes writing through their
\* sessions, interleaved with the operations that open, close and use the
\* engine; no backup is taken or restored.
NextSessions ==
    \/ SetupDb
    \/ DropDb
    \/ ResetDb
    \/ TestConnection
    \/ ValidateSchema
    \/ CheckDbHealth
    \/ PurgeData
    \/ GetDbNext
    \/ GetDbExit
    \/ create_topic
    \/ create_source

SpecSessions == Init /\ [][NextSessions]_vars

\* ------------------------------------------- provisioning by processes
\* Several processes, each with its own DatabaseManager for the same
\* PostgreSQL database name, run setup_db.  The statements
\* _create_postgresql_db sends to the server are separate steps, between
\* which the other processes run.
ProcFrame == <<db_engine, engine, SessionLocal, engines, disposed, fs_db,
               parentDir, bk, gen, faults, thr, ctorVars, asyncVars, cfgVars>>

\* "SELECT 1 FROM pg_database WHERE datname = ..."
ProvSelect ==
    \E p \in Procs :
        /\ prov[p].pc = "idle"
        /\ prov' = [prov EXCEPT ![p] = [pc |-> "checked", exists |-> pg.exists,
                                        exc |-> ""]]
        /\ last' = [NoCall EXCEPT !.op = "select_pg_database", !.scope = p]
        /\ UNCHANGED <<ProcFrame, pg>>

\* "if not exists: CREATE DATABASE ...": the server rejects the statement
\* when the name exists by now, and the except clause re-raises the error.
ProvCreate ==
    \E p \in Procs :
        /\ prov[p].pc = "checked"
        /\ IF prov[p].exists
           THEN /\ prov' = [prov EXCEPT ![p].pc = "provisioned"]
                /\ last' = [NoCall EXCEPT !.op = "already_exists", !.scope = p]
                /\ pg' = pg
           ELSE IF pg.exists
           THEN /\ prov' = [prov EXCEPT ![p].pc = "failed",
                                        ![p].exc = "ProgrammingError"]
                /\ last' = [NoCall EXCEPT !.op = "create_database", !.scope = p,
                                          !.ret = "raised",
                                          !.exc = "ProgrammingError"]
                /\ pg' = pg
           ELSE /\ prov' = [prov EXCEPT ![p].pc = "provisioned"]
                /\ last' = [NoCall EXCEPT !.op = "create_database", !.scope = p]
                /\ pg' = [exists |-> TRUE, img |-> EmptyImg]
        /\ UNCHANGED ProcFrame

\* The rest of setup_db in that process: engine, session factory, and the
\* migrations when asked for.
ProvConnect ==
    \E p \in Procs, run_mig \in BOOLEAN, env \in Envs :
        /\ prov[p].pc = "provisioned"
        /\ LET r == setup_db_connect([Cur EXCEPT !.engine = None,
                                                !.SessionLocal = None],
                                     run_mig, env)
           IN  /\ pg' = r.pg
               /\ prov' = [prov EXCEPT ![p].pc = IF Ok(r) THEN "done" ELSE "failed",
                                       ![p].exc = r.exc]
               /\ last' = [NoCall EXCEPT !.op = "setup_db_connect", !.scope = p,
                                         !.run_mig = run_mig,
                                         !.ret = IF Ok(r) THEN "self" ELSE "raised",
                                         !.exc = r.exc]
        /\ UNCHANGED ProcFrame

\* The process ends and is started again.
ProvRestart ==
    \E p \in Procs :
        /\ prov[p].pc \in {"done", "failed"}
        /\ prov' = [prov EXCEPT ![p] = IdleProc]
        /\ last' = [NoCall EXCEPT !.op = "restart", !.scope = p]
        /\ UNCHANGED <<ProcFrame, pg>>

InitProcs ==
    /\ db_engine = "postgresql"
    /\ engine = None
    /\ SessionLocal = None
    /\ engines = 0
    /\ disposed = {}
    /\ fs_db = AbsentPath
    /\ parentDir = TRUE
    /\ pg \in {NoPg, [exists |-> TRUE, img |-> SampleImg]}
    /\ bk = [p \in BackupPaths |-> NoBackup]
    /\ gen = [s \in Scopes |-> IdleGen]
    /\ faults = FALSE
    /\ last = NoCall
    /\ prov = [p \in Procs |-> IdleProc]
    /\ thr = [t \in Threads |-> IdleThread]
    /\ environ = EnvironFor(db_engine)
    /\ built = DatabaseManager(environ)
    /\ async_engine = NoAttr
    /\ AsyncSessionLocal = NoAttr
    /\ cfg_file = MissingFile
    /\ dirs = [d \in DirNames |-> "absent"]
    /\ config = NotLoaded

NextProcs ==
    \/ ProvSelect
    \/ ProvCreate
    \/ ProvConnect
    \/ ProvRestart

SpecProcs == InitProcs /\ [][NextProcs]_vars

\* The synchronous and the asynchronous set-up on one manager.
NextAsync ==
    \/ SetupDb
    \/ DropDb
    \/ SetupAsyncDb
    \/ GetAsyncDb

SpecAsync == Init /\ [][NextAsync]_vars

\* ------------------------------------------------------- construction
\* Before "db_manager = DatabaseManager()" there is no manager; the
\* environment is any of Environs.
InitCtor ==
    /\ environ \in Environs
    /\ built = NotBuilt
    /\ db_engine = ""
    /\ engine = None
    /\ SessionLocal = None
    /\ engines = 0
    /\ disposed = {}
    /\ fs_db = AbsentPath
    /\ parentDir = TRUE
    /\ pg = NoPg
    /\ bk = [p \in BackupPaths |-> NoBackup]
    /\ gen = [s \in Scopes |-> IdleGen]
    /\ faults = FALSE
    /\ last = NoCall
    /\ prov = [p \in Procs |-> IdleProc]
    /\ thr = [t \in Threads |-> IdleThread]
    /\ async_engine = NoAttr
    /\ AsyncSessionLocal = NoAttr
    /\ cfg_file = MissingFile
    /\ dirs = [d \in DirNames |-> "absent"]
    /\ config = NotLoaded

\* db_manager = DatabaseManager()
Construct ==
    /\ built = NotBuilt
    /\ built' = DatabaseManager(environ)
    /\ db_engine' = built'.db_engine
    /\ engine' = built'.engine
    /\ SessionLocal' = built'.SessionLocal
    /\ last' = [NoCall EXCEPT !.op = "DatabaseManager", !.exc = built'.exc,
                              !.ret = IF built'.exc = "" THEN "self" ELSE "raised",
                              !.ev = built'.ev]
    /\ UNCHANGED <<engines, disposed, fs_db, parentDir, pg, bk, gen, faults,
                   prov, thr, environ, asyncVars, cfgVars>>

SpecCtor == InitCtor /\ [][Construct]_vars

\* ------------------------------------------------------- configuration
\* Any file of CfgFiles; the default directory may be missing and
\* creatable, missing and not creatable, present, present and read-only, or
\* occupied by a file, the other directories missing or present.
DirStates == {"absent", "blocked", "dir", "readonly", "file"}
InitConfig ==
    /\ cfg_file \in CfgFiles
    /\ dirs \in {ds \in [DirNames -> DirStates] :
                    \A d \in DirNames \ {"sqlite_data"} : ds[d] \in {"absent", "dir"}}
    /\ config = NotLoaded
    /\ db_engine = "sqlite"
    /\ engine = None
    /\ SessionLocal = None
    /\ engines = 0
    /\ disposed = {}
    /\ fs_db = AbsentPath
    /\ parentDir = TRUE
    /\ pg = NoPg
    /\ bk = [p \in BackupPaths |-> NoBackup]
    /\ gen = [s \in Scopes |-> IdleGen]
    /\ faults = FALSE
    /\ last = NoCall
    /\ prov = [p \in Procs |-> IdleProc]
    /\ thr = [t \in Threads |-> IdleThread]
    /\ environ = EnvironFor(db_engine)
    /\ built = DatabaseManager(environ)
    /\ async_engine = NoAttr
    /\ AsyncSessionLocal = NoAttr

\* config = Config.load_config(file_path)
LoadConfig ==
    /\ config' = load_config(cfg_file, dirs)
    /\ dirs' = config'.dirs
    /\ last' = [NoCall EXCEPT !.op = "load_config",
                              !.exc = config'.exc,
                              !.ret = IF config'.exc = "" THEN "config" ELSE "raised"]
    /\ UNCHANGED <<db_engine, engine, SessionLocal, engines, disposed, fs_db,
                   parentDir, pg, bk, gen, faults, prov, thr, ctorVars, asyncVars,
                   cfg_file>>

SpecConfig == InitConfig /\ [][LoadConfig]_vars

\* purge_data on a manager that holds an engine on an existing database:
\* any schema, any rows.  Statements of the purge may fail (faults).
PurgeImgs ==
    {i \in [schema : {"migrated", "created", "none"},
            rows : [DataTables -> 0..MaxRows]] :
        i.schema = "none" => i.rows = EmptyRows}

InitPurge ==
    /\ db_engine \in Engines
    /\ engine = 1
    /\ SessionLocal = 1
    /\ engines = 1
    /\ disposed = {}
    /\ \E i \in PurgeImgs :
            /\ fs_db = IF db_engine = "sqlite" THEN FilePath(i) ELSE AbsentPath
            /\ pg = IF db_engine = "sqlite" THEN NoPg
                    ELSE [exists |-> TRUE, img |-> i]
    /\ parentDir = TRUE
    /\ bk = [p \in BackupPaths |-> NoBackup]
    /\ gen = [s \in Scopes |-> IdleGen]
    /\ faults \in BOOLEAN
    /\ last = NoCall
    /\ prov = [p \in Procs |-> IdleProc]
    /\ thr = [t \in Threads |-> IdleThread]
    /\ environ = EnvironFor(db_engine)
    /\ built = DatabaseManager(environ)
    /\ async_engine = NoAttr
    /\ AsyncSessionLocal = NoAttr
    /\ cfg_file = MissingFile
    /\ dirs = [d \in DirNames |-> "absent"]
    /\ config = NotLoaded

NextPurge ==
    \/ PurgeData
    \/ GetDbNext
    \/ GetDbExit
    \/ create_topic
    \/ create_source

SpecPurge == InitPurge /\ [][NextPurge]_vars

\* purge_data alone, on the same initial states.
SpecPurgeOnly == InitPurge /\ [][PurgeData]_vars

\* ================================================================ claims
Has(ev, e) == \E i \in DOMAIN ev : ev[i] = e

Connected    == engine # None /\ SessionLocal # None
Disconnected == engine = None /\ SessionLocal = None

\* The steps of a call that touch the live database.
TouchEvents == {"makedirs(db_file)", "copy2->db_file", "remove(db_file)",
                "DROP DATABASE", "CREATE DATABASE", "pg_restore",
                "upgrade", "create_all"}

DisposedBeforeTouch(ev) ==
    \A i \in DOMAIN ev :
        ev[i] \in TouchEvents => \E j \in 1..(i - 1) : ev[j] = "dispose"

\* C1: a session handed out by get_db is closed once its scope has been
\* left, whichever way it was left (generator exhausted, exception thrown
\* in, generator closed); no exited scope keeps an open session.
C1_SessionClosedOnEveryExit ==
    \A s \in Scopes : gen[s].st = "done" => gen[s].sess # "open"

\* C1 witness: a scope that held a session was left by an exception and its
\* session is closed.
C1_Witness ==
    /\ last.op = "get_db_exit"
    /\ last.mode = "throw"
    /\ gen[last.scope].st = "done"
    /\ gen[last.scope].sess = "closed"

\* C2 (as claimed): engine and SessionLocal are both unset or both set in
\* every reachable state.
C2_BothOrNeither == (engine = None) <=> (SessionLocal = None)

\* C3 (as claimed): every setup_db and reset_db completes and leaves the
\* manager connected, every drop_db completes and leaves it disconnected.
C3_LifecycleCompletes ==
    /\ last.op \in {"setup_db", "reset_db"} => last.exc = "" /\ Connected
    /\ last.op = "drop_db" => last.exc = "" /\ Disconnected

\* C4 (as claimed): when the migrations of setup_db(run_migrations=True)
\* fail, setup_db raises nothing, has fallen back to create_all and returns
\* connected.
C4_MigrationFallback ==
    (last.op = "setup_db" /\ last.run_mig /\ Has(last.ev, "create_all"))
        => (last.exc = "" /\ last.ret = "self" /\ Connected)

\* C5 (as claimed): setup_db called twice in a row with the same argument
\* raises neither time, and the second call leaves the database and the
\* connected state as the first call left them.
C5_SetupIdempotent ==
    [][(last.op = "setup_db" /\ last'.op = "setup_db"
            /\ last'.run_mig = last.run_mig)
        => /\ last.exc = "" /\ last'.exc = ""
           /\ fs_db' = fs_db /\ pg' = pg
           /\ Connected /\ Connected']_vars

\* C6 (as claimed): get_db on a manager whose session factory is unset opens
\* engine and session factory and yields a session.
C6_LazyGetDb ==
    [][(last'.op = "get_db" /\ SessionLocal = None)
        => /\ last'.exc = ""
           /\ gen'[last'.scope].sess = "open"
           /\ Connected']_vars

\* C7: restore_db with an existing backup disposes a live engine and clears
\* engine and SessionLocal before it touches the live database, never runs
\* the migrations, and when it returns True the manager was reconnected by
\* setup_db(run_migrations=False).
C7_RestoreClosesFirst ==
    [][(last'.op = "restore_db" /\ bk[last'.path].exists)
        => /\ engine # None =>
                /\ engine \in disposed'
                /\ DisposedBeforeTouch(last'.ev)
                /\ engine' # engine
           /\ ~Has(last'.ev, "upgrade")
           /\ ~Has(last'.ev, "setup_db(True)")
           /\ last'.ret = "True" =>
                /\ Has(last'.ev, "setup_db(False)")
                /\ Connected']_vars

\* C7 witness: a restore from an existing backup on a connected manager
\* succeeded; the old engine was disposed and the manager is connected.
C7_Witness ==
    /\ last.op = "restore_db"
    /\ bk[last.path].exists
    /\ last.ret = "True"
    /\ Has(last.ev, "dispose")
    /\ Has(last.ev, "setup_db(False)")
    /\ Connected

\* The part of the state restore_db could change.
RestoreFrame == <<engine, SessionLocal, engines, disposed, fs_db, parentDir, pg, bk>>

\* C8 (as claimed): restore_db with a backup path that does not exist fails
\* with an error, before changing anything.
C8_MissingBackupRaises ==
    [][(last'.op = "restore_db" /\ ~bk[last'.path].exists)
        => (last'.ret = "raised" /\ UNCHANGED RestoreFrame)]_vars

\* C8 (amended): restore_db with a backup path that does not exist returns
\* False without raising, before changing anything: no engine is disposed,
\* engine and SessionLocal keep their values, the database is not modified.
C8_MissingBackupReturnsFalse ==
    [][(last'.op = "restore_db" /\ ~bk[last'.path].exists)
        => /\ last'.ret = "False" /\ last'.exc = ""
           /\ ~Has(last'.ev, "dispose")
           /\ UNCHANGED RestoreFrame]_vars

\* C8 witness: a restore from a missing path on a connected manager returned
\* False and the engine is still live.
C8_Witness ==
    /\ last.op = "restore_db"
    /\ ~bk[last.path].exists
    /\ last.ret = "False"
    /\ Connected
    /\ engine \notin disposed

\* C9 (as claimed): on SQLite, restore_db from a path that backup_db returned
\* succeeds and leaves the live database equal to the backup, connected.
C9_BackupRestoreRoundTrip ==
    (db_engine = "sqlite" /\ last.op = "restore_db" /\ bk[last.path].exists)
        => /\ last.ret = "True"
           /\ fs_db.kind = "file"
           /\ fs_db.img = bk[last.path].img
           /\ Connected

\* C10 (as claimed): on SQLite, backup_db copies the database file to the
\* target path (default or caller-specified) and returns that path, and
\* fails with FileNotFoundError when the database file does not exist.
C10_BackupCopiesToTarget ==
    (db_engine = "sqlite" /\ last.op = "backup_db")
        => /\ fs_db.kind = "file" =>
                /\ last.ret = "path"
                /\ last.path = CustomPath => last.rpath = CustomPath
                /\ last.rpath \in BackupPaths
                /\ bk[last.rpath] = [exists |-> TRUE, img |-> fs_db.img]
           /\ fs_db.kind = "absent" => last.exc = "FileNotFoundError"

\* The image of the database the manager is configured for.
Img == IF db_engine = "sqlite" THEN fs_db.img ELSE pg.img

C12_PurgeFrame ==
    [][(last'.op = "purge_data" /\ last'.ret = "self")
        => /\ \A t \in DataTables \ last'.exclude : Img'.rows[t] = 0
           /\ \A t \in last'.exclude : Img'.rows[t] = Img.rows[t]
           /\ Img'.schema = Img.schema]_vars

\* Whether the database drop_db is to remove exists.
TargetExists == IF db_engine = "sqlite" THEN fs_db.kind # "absent" ELSE pg.exists

C14_CreateRaceTolerated ==
    \A p \in Procs : prov[p].pc # "failed"

\* C15: test_connection and check_db_health never raise; they report
\* success / "healthy" exactly when the probe through the engine ran, and
\* otherwise a failure / "unhealthy" result that carries the error.
C15_StatusNotRaised ==
    /\ last.op = "test_connection" =>
         /\ last.exc = ""
         /\ last.ret \in {"success", "failure"}
         /\ last.ret = "success" <=> Has(last.ev, "SELECT 1")
         /\ last.ret = "failure" => last.msg # ""
    /\ last.op = "check_db_health" =>
         /\ last.exc = ""
         /\ last.ret \in {"healthy", "unhealthy"}
         /\ last.ret = "healthy" <=> Has(last.ev, "inspect")
         /\ last.ret = "unhealthy" => last.msg # ""

\* C15 witness: a health check whose connection failed returned "unhealthy"
\* with the error.
C15_Witness ==
    /\ last.op = "check_db_health"
    /\ last.ret = "unhealthy"
    /\ last.exc = ""
    /\ last.msg = "OperationalError"

\* C16: every engine test_connection created, and the engine the manager
\* holds when it returns, has been disposed, whether the probe succeeded
\* or failed.
C16_TestConnectionDisposes ==
    [][last'.op = "test_connection"
        => /\ \A e \in (engines + 1)..engines' : e \in disposed'
           /\ engine' # None => engine' \in disposed'
           /\ last'.exc = ""]_vars

\* C16 witness: test_connection on a disconnected manager created an engine,
\* failed to connect through it, and disposed it.
C16_Witness ==
    /\ last.op = "test_connection"
    /\ last.ret = "failure"
    /\ Has(last.ev, "create_engine")
    /\ Has(last.ev, "dispose")
    /\ engine \in disposed

\* C17: DatabaseManager() with a DB_ENGINE other than sqlite, postgresql,
\* postgres raises the invalid-engine error before any engine is created or
\* connection opened; with a supported engine it raises nothing and the new
\* manager has engine and SessionLocal unset.
C17_InvalidEngineFailsFast ==
    built # NotBuilt =>
        /\ built.exc = (IF getenv(environ, "DB_ENGINE", "sqlite")
                            \in {"sqlite", "postgresql", "postgres"}
                        THEN "" ELSE "ValueError")
        /\ ~Has(built.ev, "create_engine")
        /\ engines = 0
        /\ built.exc = "" =>
             /\ db_engine = getenv(environ, "DB_ENGINE", "sqlite")
             /\ Disconnected

\* C17 witness: construction with DB_ENGINE=mysql raised the invalid-engine
\* error and no engine exists.
C17_Witness ==
    /\ last.op = "DatabaseManager"
    /\ environ.DB_ENGINE = SetTo("mysql")
    /\ built.exc = "ValueError"
    /\ engines = 0

C19_DefaultsWithoutFile ==
    (last.op = "load_config" /\ cfg_file.kind \in {"missing", "empty"})
        => /\ config.exc = ""
           /\ config.db.type = "sqlite"
           /\ config.db.name = "app"
           /\ config.db.dir = "sqlite_data"
           /\ config.user.default_role = "viewer"

\* The value the precedence "engine defaults < DATABASE < engine section"
\* gives key k of file f: the database type is the one DATABASE names,
\* sqlite when it names none.
Precedence(f, k) ==
    LET database == parsed_section(f, "DATABASE")
        type     == IF database.DB_TYPE.set THEN Lower(database.DB_TYPE.val)
                    ELSE "sqlite"
        sect     == IF type = "sqlite" THEN "SQLITE" ELSE "POSTGRESQL"
    IN  Opt(merge(merge(DbTypeDefaults[sect], database),
                  parsed_section(f, sect))[k])

\* C20 (as claimed): every database key of a resolved Config has the value
\* of the highest-precedence source that defines it, also when DATABASE
\* omits DB_TYPE.
C20_Precedence ==
    (last.op = "load_config" /\ config.exc = "")
        => /\ config.db.name = Precedence(cfg_file, "DB_NAME")
           /\ config.db.dir = Precedence(cfg_file, "DB_DIR")
           /\ config.db.host = Precedence(cfg_file, "DB_HOST")

\* The keys of file f that land in a recognized section: those of USER
\* and of DATABASE, and those of the section of the engine DATABASE
\* selects, which is folded into DATABASE.
RecognizedKeys(f) ==
    LET database == parsed_section(f, "DATABASE")
        type     == IF database.DB_TYPE.set THEN Lower(database.DB_TYPE.val)
                    ELSE "sqlite"
    IN  KeysOf(database) \cup KeysOf(parsed_section(f, "USER"))
          \cup (IF Upper(type) \in CfgSections
                THEN KeysOf(parsed_section(f, Upper(type))) ELSE {})

\* File f without its CUSTOM section.
WithoutUnknownSections(f) == [f EXCEPT !.sec.CUSTOM = NoKeys]

\* C21 (as claimed): load_config fails on every file with an unknown key
\* in a recognized section, and on any other file it returns what it
\* returns for the same file without its unknown sections.
C21_UnknownKeysRejected ==
    [][last'.op = "load_config"
         => IF "EXTRA" \in RecognizedKeys(cfg_file)
            THEN config'.exc # ""
            ELSE config' = load_config(WithoutUnknownSections(cfg_file), dirs)]_vars

\* The DB_TYPE that file f gives in its DATABASE section.
GivenDbType(f) == parsed_section(f, "DATABASE").DB_TYPE

\* C22 (as claimed): a DB_TYPE that is one of sqlite, postgresql and
\* postgres is accepted and becomes the type of the Config, with the
\* defaults of its engine (directories permitting); a DB_TYPE that is none
\* of them in any spelling fails as unsupported, the error naming it.
C22_DbTypeAliases ==
    (/\ last.op = "load_config"
     /\ GivenDbType(cfg_file).set
     /\ \A d \in DirNames : dirs[d] = "dir")
        => LET v == GivenDbType(cfg_file).val
           IN  /\ v \in {"sqlite", "postgresql", "postgres"}
                    => /\ config.exc = ""
                       /\ config.db.type = v
                       /\ config.db.name = Precedence(cfg_file, "DB_NAME")
                       /\ config.db.host = Precedence(cfg_file, "DB_HOST")
               /\ Lower(v) \notin {"sqlite", "postgresql", "postgres"}
                    => /\ config.exc = "ConfigValueError"
                       /\ config.msg = v

\* File f with every key it sets to the empty string left out instead.
Blank(e) == IF e.set /\ e.val = "" THEN Unset ELSE e
OmittingEmpties(f) ==
    [f EXCEPT !.sec = [s \in CfgSections |-> [k \in CfgKeys |-> Blank(f.sec[s][k])]]]

HasEmpty(f) ==
    \E s \in CfgSections : \E k \in DbKeys : f.sec[s][k] = SetTo("")

C30_CreatedDirRetained ==
    [][(/\ last'.op = "load_config"
        /\ GivenDbType(cfg_file).set
        /\ GivenDbType(cfg_file).val \in {"sqlite", "postgresql"}
        /\ Precedence(cfg_file, "DB_DIR") \in DirNames)
          => LET d == Precedence(cfg_file, "DB_DIR")
             IN  IF dirs[d] \in {"absent", "dir"}
                 THEN /\ config'.exc = ""
                      /\ config'.db.dir = d
                      /\ dirs'[d] = "dir"
                 ELSE config'.exc # ""]_vars

\* C25 (as claimed): every engine the manager has created is its current
\* engine or has been disposed.
C25_NoEngineLeak ==
    \A e \in 1..engines : e = engine \/ e \in disposed

\* C27: a purge_data that fails raises to its caller and leaves the rows
\* of every table, and the schema, as they were before the call.
C27_FailedPurgeRollsBack ==
    [][(last'.op = "purge_data" /\ last'.ret # "self")
         => /\ last'.exc # ""
            /\ Img' = Img]_vars

\* C27 witness: a DELETE failed after an earlier DELETE of the same call
\* had removed rows, and the rows are there after the call.
C27_Witness ==
    /\ last.op = "purge_data"
    /\ last.exc = "OperationalError"
    /\ Has(last.ev, "DELETE")
    /\ Has(last.ev, "DELETE fails")
    /\ Img.rows["articles"] > 0
    /\ "articles" \notin last.exclude

\* C28: a restore_db that returns False after closing the engine the
\* manager held leaves engine and SessionLocal both unset.
C28_FailedRestoreDisconnected ==
    [][(/\ last'.op = "restore_db"
        /\ last'.ret = "False"
        /\ engine # None
        /\ bk[last'.path].exists)
         => /\ Has(last'.ev, "dispose")
            /\ engine' = None
            /\ SessionLocal' = None]_vars

\* C28 witness: on a connected manager pg_restore failed after the
\* database had been dropped and created again; the manager is
\* disconnected.
C28_Witness ==
    /\ last.op = "restore_db"
    /\ last.ret = "False"
    /\ Has(last.ev, "dispose")
    /\ Has(last.ev, "DROP DATABASE")
    /\ Has(last.ev, "CREATE DATABASE")
    /\ Has(last.ev, "pg_restore")
    /\ Disconnected

\* C29 (as claimed): on SQLite, for every DB_DIR, the file the URL names
\* is {db_name}.db in the manager's db_dir.
C29_UrlUnderDbDir ==
    (last.op = "DatabaseManager" /\ built.exc = "" /\ built.db_engine = "sqlite")
        => /\ built.db_url.dir = built.db_dir
           /\ built.db_url.name = built.db_name

\* C26 (as claimed): on SQLite the path of the database file is never a
\* directory; after a setup_db that returned, its parent directory exists;
\* and drop_db does not fail.
C26_DbPathNeverDirectory ==
    db_engine = "sqlite"
        => /\ fs_db.kind # "dir"
           /\ (last.op = "setup_db" /\ last.exc = "") => parentDir
           /\ last.op = "drop_db" => last.exc = ""

\* C24 (as claimed): when no call of setup_db is in progress and engine
\* and SessionLocal are both set, SessionLocal is bound to the current
\* engine.
C24_SessionBoundToEngine ==
    (/\ \A t \in Threads : thr[t].pc = "idle"
     /\ engine # None
     /\ SessionLocal # None)
        => SessionLocal = engine

====
